---- MODULE Spec2Model ----
(***************************************************************************)
(* Model of admin_address::backend (src/backend/backend.move): the campaign *)
(* registry (CampaignStore), the escrow pool (CampaignFunds) and the entry  *)
(* functions initialize, create_campaign, donate, withdraw, admin_withdraw. *)
(*                                                                          *)
(* Every entry function is one transaction: it either runs to its end or    *)
(* aborts, and an abort rolls back every effect (Move VM semantics).  The   *)
(* coin module is modelled by what the contract uses of it: coin::withdraw  *)
(* aborts when the signer's balance is below the amount, coin::merge and    *)
(* coin::deposit add, coin::extract aborts when the pool holds less than    *)
(* the amount.  Every address is assumed to hold a registered AptosCoin     *)
(* CoinStore.  u64 is modelled with U64Bits bits; an addition that exceeds  *)
(* MAX_U64 aborts the transaction, as Move arithmetic does.                 *)
(*                                                                          *)
(* The view functions are operators on the storage.  Spec is the contract   *)
(* with initialize signed by the administrator; SpecAnySigner lets another  *)
(* account sign it too; SpecPositiveGoal creates every campaign with the    *)
(* goal MaxGoal; SpecOverflow runs with goals and amounts at the ends of    *)
(* the u64 range.                                                           *)
(***************************************************************************)
EXTENDS Integers, Sequences, FiniteSets, TLC

\* ----------------------------------------------------------------- bounds
MaxCampaigns == 2
MaxGoal == 2
MaxAmount == 2
InitBalance == 2
U64Bits == 3

MAX_U64 == 2^U64Bits - 1

\* ------------------------------------------------------------ error codes
E_NOT_OWNER == 1
E_CAMPAIGN_NOT_FOUND == 2
E_CAMPAIGN_COMPLETED == 3
E_INSUFFICIENT_FUNDS == 4
E_GOAL_NOT_REACHED == 5
E_ALREADY_WITHDRAWN == 6

\* -------------------------------------------------------------- addresses
admin_address == "admin"
Addresses == {admin_address, "alice", "bob"}

\* The inputs the transactions are drawn from.
InitSigners == {admin_address}
Creators == {admin_address, "alice"}

Titles == {<<70>>}
Descriptions == {<<104, 105>>}
Goals == {0, MaxGoal}
Amounts == 0..MaxAmount
Indices == 0..MaxCampaigns

\* ---------------------------------------------------- transaction results
\* A transaction runs to its end (Ok) or aborts: with one of the module's
\* error codes (assert!), in borrow_global/borrow_global_mut on a missing
\* resource, inside the coin module, or on an arithmetic overflow.
Ok == [kind |-> "ok", code |-> 0]
Abort(c) == [kind |-> "abort", code |-> c]
MissingResource == [kind |-> "missing_resource", code |-> 0]
CoinAbort == [kind |-> "coin_abort", code |-> 0]
ArithmeticAbort == [kind |-> "arithmetic_abort", code |-> 0]

VARIABLES
    store,      \* store[a]: the CampaignStore resource under address a
    funds,      \* funds[a]: the CampaignFunds resource under address a
    balance,    \* balance[a]: the AptosCoin balance of account a
    ghost       \* history, per campaign of the admin's store (not program state)

vars == <<store, funds, balance, ghost>>

\* The global storage as one value w; the entry functions are functions of it.
world == [store |-> store, funds |-> funds, balance |-> balance]

CampaignStore(cs, n) == [exists |-> TRUE, campaigns |-> cs, next_id |-> n]
NoCampaignStore == [exists |-> FALSE, campaigns |-> <<>>, next_id |-> 0]
CampaignFunds(v) == [exists |-> TRUE, value |-> v]
NoCampaignFunds == [exists |-> FALSE, value |-> 0]

Campaign(o, t, d, g) ==
    [owner |-> o, title |-> t, description |-> d, goal |-> g,
     donated |-> 0, completed |-> FALSE, withdrawn |-> FALSE]

\* borrow_global<CampaignStore>(@admin_address).campaigns
Campaigns(w) == w.store[admin_address].campaigns
\* vector::length(&store.campaigns)
Length(w) == Len(Campaigns(w))
\* vector::borrow(&store.campaigns, i), i counted from 0
Borrow(w, i) == Campaigns(w)[i + 1]
\* borrow_global<CampaignFunds>(@admin_address).funds.value
Treasury(w) == w.funds[admin_address].value

campaigns == Campaigns(world)
treasury == Treasury(world)

\* ------------------------------------------------------------- initialize
\* Mutant of initialize: the resources are written whether or not they exist.
initialize_overwriting(w, admin) ==
    [w EXCEPT
        !.store = [@ EXCEPT ![admin] = CampaignStore(<<>>, 0)],
        !.funds = [@ EXCEPT ![admin] = CampaignFunds(0)]]

\* Mutant of initialize: the resources are created under @admin_address
\* whoever signs.
initialize_at_admin_address(w, admin) ==
    [w EXCEPT
        !.store = IF w.store[admin_address].exists THEN @
                  ELSE [@ EXCEPT ![admin_address] = CampaignStore(<<>>, 0)],
        !.funds = IF w.funds[admin_address].exists THEN @
                  ELSE [@ EXCEPT ![admin_address] = CampaignFunds(0)]]

initialize(w, admin) ==
    [w EXCEPT
        !.store = IF w.store[admin].exists THEN @
                  ELSE [@ EXCEPT ![admin] = CampaignStore(<<>>, 0)],
        !.funds = IF w.funds[admin].exists THEN @
                  ELSE [@ EXCEPT ![admin] = CampaignFunds(0)]]

\* -------------------------------------------------------- create_campaign
create_campaign_result(w, creator, title, description, goal) ==
    IF ~w.store[admin_address].exists THEN MissingResource
    ELSE IF w.store[admin_address].next_id + 1 > MAX_U64 THEN ArithmeticAbort
    ELSE Ok

\* Mutant of create_campaign: the owner recorded is the store's address.
create_campaign_owned_by_admin(w, creator, title, description, goal) ==
    IF create_campaign_result(w, creator, title, description, goal) # Ok THEN w
    ELSE [w EXCEPT !.store[admin_address] =
             CampaignStore(
                 Append(@.campaigns,
                        Campaign(admin_address, title, description, goal)),
                 @.next_id + 1)]

\* Mutant of create_campaign: the new campaign is put in front.
create_campaign_in_front(w, creator, title, description, goal) ==
    IF create_campaign_result(w, creator, title, description, goal) # Ok THEN w
    ELSE [w EXCEPT !.store[admin_address] =
             CampaignStore(
                 <<Campaign(creator, title, description, goal)>> \o @.campaigns,
                 @.next_id + 1)]

\* Mutant of create_campaign: next_id is left as it was.
create_campaign_no_counter(w, creator, title, description, goal) ==
    IF create_campaign_result(w, creator, title, description, goal) # Ok THEN w
    ELSE [w EXCEPT !.store[admin_address] =
             CampaignStore(
                 Append(@.campaigns, Campaign(creator, title, description, goal)),
                 @.next_id)]

create_campaign(w, creator, title, description, goal) ==
    IF create_campaign_result(w, creator, title, description, goal) # Ok THEN w
    ELSE [w EXCEPT !.store[admin_address] =
             CampaignStore(
                 Append(@.campaigns, Campaign(creator, title, description, goal)),
                 @.next_id + 1)]

\* ------------------------------------------------------------------ donate
\* Mutant of donate_result: the E_CAMPAIGN_NOT_FOUND assertion is missing, so
\* vector::borrow_mut aborts on the index.
donate_result_no_bounds_check(w, donor, campaign_index, amount) ==
    IF ~w.store[admin_address].exists THEN MissingResource
    ELSE IF ~(campaign_index < Length(w)) THEN [kind |-> "vector_abort", code |-> 0]
    ELSE IF Borrow(w, campaign_index).completed THEN Abort(E_CAMPAIGN_COMPLETED)
    ELSE IF w.balance[donor] < amount THEN CoinAbort
    ELSE IF ~w.funds[admin_address].exists THEN MissingResource
    ELSE IF Treasury(w) + amount > MAX_U64 THEN ArithmeticAbort
    ELSE IF Borrow(w, campaign_index).donated + amount > MAX_U64 THEN ArithmeticAbort
    ELSE Ok

\* Mutant of donate_result: the coins are taken before completed is checked.
donate_result_debit_first(w, donor, campaign_index, amount) ==
    IF ~w.store[admin_address].exists THEN MissingResource
    ELSE IF ~(campaign_index < Length(w)) THEN Abort(E_CAMPAIGN_NOT_FOUND)
    ELSE IF w.balance[donor] < amount THEN CoinAbort
    ELSE IF Borrow(w, campaign_index).completed THEN Abort(E_CAMPAIGN_COMPLETED)
    ELSE IF ~w.funds[admin_address].exists THEN MissingResource
    ELSE IF Treasury(w) + amount > MAX_U64 THEN ArithmeticAbort
    ELSE IF Borrow(w, campaign_index).donated + amount > MAX_U64 THEN ArithmeticAbort
    ELSE Ok

\* Mutant of donate_result: the addition to campaign.donated is unchecked.
donate_result_unchecked_add(w, donor, campaign_index, amount) ==
    IF ~w.store[admin_address].exists THEN MissingResource
    ELSE IF ~(campaign_index < Length(w)) THEN Abort(E_CAMPAIGN_NOT_FOUND)
    ELSE IF Borrow(w, campaign_index).completed THEN Abort(E_CAMPAIGN_COMPLETED)
    ELSE IF w.balance[donor] < amount THEN CoinAbort
    ELSE IF ~w.funds[admin_address].exists THEN MissingResource
    ELSE IF Treasury(w) + amount > MAX_U64 THEN ArithmeticAbort
    ELSE Ok

donate_result(w, donor, campaign_index, amount) ==
    IF ~w.store[admin_address].exists THEN MissingResource
    ELSE IF ~(campaign_index < Length(w)) THEN Abort(E_CAMPAIGN_NOT_FOUND)
    ELSE IF Borrow(w, campaign_index).completed THEN Abort(E_CAMPAIGN_COMPLETED)
    ELSE IF w.balance[donor] < amount THEN CoinAbort
    ELSE IF ~w.funds[admin_address].exists THEN MissingResource
    ELSE IF Treasury(w) + amount > MAX_U64 THEN ArithmeticAbort
    ELSE IF Borrow(w, campaign_index).donated + amount > MAX_U64 THEN ArithmeticAbort
    ELSE Ok

\* Mutant of Donated: donated is capped at the goal.
Donated_capped(c, amount) ==
    LET d == c.donated + amount
        e == IF d > c.goal THEN c.goal ELSE d IN
    [c EXCEPT !.donated = e,
              !.completed = IF d >= c.goal THEN TRUE ELSE @]

\* Mutant of Donated: the goal check is strict.
Donated_strict(c, amount) ==
    LET d == c.donated + amount IN
    [c EXCEPT !.donated = d,
              !.completed = IF d > c.goal THEN TRUE ELSE @]

\* Mutant of Donated: a donation of nothing does not complete the campaign.
Donated_positive(c, amount) ==
    LET d == c.donated + amount IN
    [c EXCEPT !.donated = d,
              !.completed = IF amount > 0 /\ d >= c.goal THEN TRUE ELSE @]

\* lines 100-105: the campaign after amount has been added to it
Donated(c, amount) ==
    LET d == c.donated + amount IN
    [c EXCEPT !.donated = d,
              !.completed = IF d >= c.goal THEN TRUE ELSE @]

\* Mutant of donate: the coins go to the campaign's owner, not to the pool.
donate_to_owner(w, donor, campaign_index, amount) ==
    IF donate_result(w, donor, campaign_index, amount) # Ok THEN w
    ELSE LET o == Borrow(w, campaign_index).owner IN
         [w EXCEPT
             !.balance = [[@ EXCEPT ![donor] = @ - amount] EXCEPT ![o] = @ + amount],
             !.store[admin_address].campaigns[campaign_index + 1] =
                 Donated(@, amount)]

\* Mutant of donate: the pool is credited twice the amount.
donate_double_credit(w, donor, campaign_index, amount) ==
    IF donate_result(w, donor, campaign_index, amount) # Ok THEN w
    ELSE [w EXCEPT
             !.balance[donor] = @ - amount,
             !.funds[admin_address].value = @ + amount + amount,
             !.store[admin_address].campaigns[campaign_index + 1] =
                 Donated(@, amount)]

\* Mutant of donate: one unit of every donation goes to the administrator
\* and not to the pool.
donate_with_fee(w, donor, campaign_index, amount) ==
    IF donate_result(w, donor, campaign_index, amount) # Ok THEN w
    ELSE LET fee == IF amount > 0 THEN 1 ELSE 0 IN
         [w EXCEPT
             !.balance = [[@ EXCEPT ![donor] = @ - amount]
                             EXCEPT ![admin_address] = @ + fee],
             !.funds[admin_address].value = @ + amount - fee,
             !.store[admin_address].campaigns[campaign_index + 1] =
                 Donated(@, amount)]

donate(w, donor, campaign_index, amount) ==
    IF donate_result(w, donor, campaign_index, amount) # Ok THEN w
    ELSE [w EXCEPT
             !.balance[donor] = @ - amount,
             !.funds[admin_address].value = @ + amount,
             !.store[admin_address].campaigns[campaign_index + 1] =
                 Donated(@, amount)]

\* ---------------------------------------------------------------- withdraw
\* coin::extract of campaign.donated from the pool and coin::deposit to `to`
\* (lines 124-129 and 150-155)
transfer_result(w, campaign_index, to) ==
    IF ~w.funds[admin_address].exists THEN MissingResource
    ELSE IF Treasury(w) < Borrow(w, campaign_index).donated THEN CoinAbort
    ELSE IF w.balance[to] + Borrow(w, campaign_index).donated > MAX_U64
         THEN ArithmeticAbort
    ELSE Ok

\* Mutant of transfer: the payout is the goal, not the donated total.
transfer_goal(w, campaign_index, to) ==
    LET c == Borrow(w, campaign_index)
        withdrawal_amount == IF c.donated > c.goal THEN c.goal ELSE c.donated IN
    [w EXCEPT
        !.funds[admin_address].value = @ - withdrawal_amount,
        !.balance[to] = @ + withdrawal_amount,
        !.store[admin_address].campaigns[campaign_index + 1].withdrawn = TRUE]

\* Mutant of transfer: the payout empties the pool.
transfer_whole_pool(w, campaign_index, to) ==
    LET withdrawal_amount == Treasury(w) IN
    [w EXCEPT
        !.funds[admin_address].value = @ - withdrawal_amount,
        !.balance[to] = @ + withdrawal_amount,
        !.store[admin_address].campaigns[campaign_index + 1].withdrawn = TRUE]

\* Mutant of transfer: the extracted coins are not deposited.
transfer_no_deposit(w, campaign_index, to) ==
    LET withdrawal_amount == Borrow(w, campaign_index).donated IN
    [w EXCEPT
        !.funds[admin_address].value = @ - withdrawal_amount,
        !.store[admin_address].campaigns[campaign_index + 1].withdrawn = TRUE]

\* Mutant of transfer: the campaign's donated is reset after the payout.
transfer_reset_donated(w, campaign_index, to) ==
    LET withdrawal_amount == Borrow(w, campaign_index).donated IN
    [w EXCEPT
        !.funds[admin_address].value = @ - withdrawal_amount,
        !.balance[to] = @ + withdrawal_amount,
        !.store[admin_address].campaigns[campaign_index + 1].withdrawn = TRUE,
        !.store[admin_address].campaigns[campaign_index + 1].donated = 0]

\* lines 124-132 and 150-157: pay campaign.donated to `to`, mark withdrawn
transfer(w, campaign_index, to) ==
    LET withdrawal_amount == Borrow(w, campaign_index).donated IN
    [w EXCEPT
        !.funds[admin_address].value = @ - withdrawal_amount,
        !.balance[to] = @ + withdrawal_amount,
        !.store[admin_address].campaigns[campaign_index + 1].withdrawn = TRUE]

\* Mutant of withdraw_result: the E_ALREADY_WITHDRAWN assertion is missing.
withdraw_result_no_withdrawn_check(w, owner, campaign_index) ==
    IF ~w.store[admin_address].exists THEN MissingResource
    ELSE IF ~(campaign_index < Length(w)) THEN Abort(E_CAMPAIGN_NOT_FOUND)
    ELSE IF ~(Borrow(w, campaign_index).owner = owner) THEN Abort(E_NOT_OWNER)
    ELSE IF ~Borrow(w, campaign_index).completed THEN Abort(E_GOAL_NOT_REACHED)
    ELSE transfer_result(w, campaign_index, owner)

\* Mutant of withdraw_result: the E_GOAL_NOT_REACHED assertion is missing.
withdraw_result_no_goal_check(w, owner, campaign_index) ==
    IF ~w.store[admin_address].exists THEN MissingResource
    ELSE IF ~(campaign_index < Length(w)) THEN Abort(E_CAMPAIGN_NOT_FOUND)
    ELSE IF ~(Borrow(w, campaign_index).owner = owner) THEN Abort(E_NOT_OWNER)
    ELSE IF Borrow(w, campaign_index).withdrawn THEN Abort(E_ALREADY_WITHDRAWN)
    ELSE transfer_result(w, campaign_index, owner)

\* Mutant of withdraw_result: the withdrawn flag is checked first.
withdraw_result_reordered(w, owner, campaign_index) ==
    IF ~w.store[admin_address].exists THEN MissingResource
    ELSE IF ~(campaign_index < Length(w)) THEN Abort(E_CAMPAIGN_NOT_FOUND)
    ELSE IF Borrow(w, campaign_index).withdrawn THEN Abort(E_ALREADY_WITHDRAWN)
    ELSE IF ~(Borrow(w, campaign_index).owner = owner) THEN Abort(E_NOT_OWNER)
    ELSE IF ~Borrow(w, campaign_index).completed THEN Abort(E_GOAL_NOT_REACHED)
    ELSE transfer_result(w, campaign_index, owner)

withdraw_result(w, owner, campaign_index) ==
    IF ~w.store[admin_address].exists THEN MissingResource
    ELSE IF ~(campaign_index < Length(w)) THEN Abort(E_CAMPAIGN_NOT_FOUND)
    ELSE IF ~(Borrow(w, campaign_index).owner = owner) THEN Abort(E_NOT_OWNER)
    ELSE IF ~Borrow(w, campaign_index).completed THEN Abort(E_GOAL_NOT_REACHED)
    ELSE IF Borrow(w, campaign_index).withdrawn THEN Abort(E_ALREADY_WITHDRAWN)
    ELSE transfer_result(w, campaign_index, owner)

withdraw(w, owner, campaign_index) ==
    IF withdraw_result(w, owner, campaign_index) # Ok THEN w
    ELSE transfer(w, campaign_index, owner)

\* ---------------------------------------------------------- admin_withdraw
\* Mutant of admin_withdraw_result: the E_ALREADY_WITHDRAWN assertion is missing.
admin_withdraw_result_no_withdrawn_check(w, admin, campaign_index) ==
    IF ~(admin = admin_address) THEN Abort(E_NOT_OWNER)
    ELSE IF ~w.store[admin_address].exists THEN MissingResource
    ELSE IF ~(campaign_index < Length(w)) THEN Abort(E_CAMPAIGN_NOT_FOUND)
    ELSE transfer_result(w, campaign_index, Borrow(w, campaign_index).owner)

\* Mutant of admin_withdraw_result: the campaign's owner is let through too.
admin_withdraw_result_owner_allowed(w, admin, campaign_index) ==
    IF ~w.store[admin_address].exists THEN MissingResource
    ELSE IF ~(campaign_index < Length(w)) THEN Abort(E_CAMPAIGN_NOT_FOUND)
    ELSE IF ~(admin = admin_address \/ admin = Borrow(w, campaign_index).owner)
         THEN Abort(E_NOT_OWNER)
    ELSE IF Borrow(w, campaign_index).withdrawn THEN Abort(E_ALREADY_WITHDRAWN)
    ELSE transfer_result(w, campaign_index, Borrow(w, campaign_index).owner)

\* Mutant of admin_withdraw_result: the index is checked before the caller.
admin_withdraw_result_index_first(w, admin, campaign_index) ==
    IF ~w.store[admin_address].exists THEN MissingResource
    ELSE IF ~(campaign_index < Length(w)) THEN Abort(E_CAMPAIGN_NOT_FOUND)
    ELSE IF ~(admin = admin_address) THEN Abort(E_NOT_OWNER)
    ELSE IF Borrow(w, campaign_index).withdrawn THEN Abort(E_ALREADY_WITHDRAWN)
    ELSE transfer_result(w, campaign_index, Borrow(w, campaign_index).owner)

admin_withdraw_result(w, admin, campaign_index) ==
    IF ~(admin = admin_address) THEN Abort(E_NOT_OWNER)
    ELSE IF ~w.store[admin_address].exists THEN MissingResource
    ELSE IF ~(campaign_index < Length(w)) THEN Abort(E_CAMPAIGN_NOT_FOUND)
    ELSE IF Borrow(w, campaign_index).withdrawn THEN Abort(E_ALREADY_WITHDRAWN)
    ELSE transfer_result(w, campaign_index, Borrow(w, campaign_index).owner)

\* Mutant of admin_withdraw: the funds go to the caller.
admin_withdraw_to_caller(w, admin, campaign_index) ==
    IF admin_withdraw_result(w, admin, campaign_index) # Ok THEN w
    ELSE transfer(w, campaign_index, admin)

admin_withdraw(w, admin, campaign_index) ==
    IF admin_withdraw_result(w, admin, campaign_index) # Ok THEN w
    ELSE transfer(w, campaign_index, Borrow(w, campaign_index).owner)

\* ---------------------------------------------------------- view functions
get_campaign_count(w) ==
    IF ~w.store[admin_address].exists THEN 0
    ELSE Length(w)

\* Mutant of get_campaign_result: the E_CAMPAIGN_NOT_FOUND assertion is
\* missing, so vector::borrow aborts on the index.
get_campaign_result_no_bounds_check(w, index) ==
    IF ~w.store[admin_address].exists THEN MissingResource
    ELSE IF ~(index < Length(w)) THEN [kind |-> "vector_abort", code |-> 0]
    ELSE Ok

get_campaign_result(w, index) ==
    IF ~w.store[admin_address].exists THEN MissingResource
    ELSE IF ~(index < Length(w)) THEN Abort(E_CAMPAIGN_NOT_FOUND)
    ELSE Ok

\* The tuple get_campaign returns when it does not abort.
get_campaign(w, index) ==
    LET campaign == Borrow(w, index) IN
    <<campaign.owner, campaign.title, campaign.description, campaign.goal,
      campaign.donated, campaign.completed, campaign.withdrawn>>

get_all_campaigns(w) ==
    IF ~w.store[admin_address].exists THEN <<>>
    ELSE Campaigns(w)

\* lines 211-216: the while loop of get_campaigns_by_owner from index i on,
\* with result as collected so far.
RECURSIVE owner_loop(_, _, _, _)
owner_loop(w, owner, i, result) ==
    IF ~(i < Length(w)) THEN result
    ELSE owner_loop(w, owner, i + 1,
                    IF Borrow(w, i).owner = owner THEN Append(result, i)
                    ELSE result)

\* Mutant of get_campaigns_by_owner: the loop starts at index 1.
get_campaigns_by_owner_from_one(w, owner) ==
    IF ~w.store[admin_address].exists THEN <<>>
    ELSE owner_loop(w, owner, 1, <<>>)

get_campaigns_by_owner(w, owner) ==
    IF ~w.store[admin_address].exists THEN <<>>
    ELSE owner_loop(w, owner, 0, <<>>)

\* ------------------------------------------------------------ transactions
\* One action per entry function, enabled when the transaction runs to its
\* end: the storage becomes what the function returns.  A transaction that
\* aborts is rolled back and leaves every variable as it was (a stuttering
\* step); what it returns and what the function would write are given by the
\* *_result operators and the functions, for every input in every state.
Commit(w) ==
    /\ store' = w.store
    /\ funds' = w.funds
    /\ balance' = w.balance

\* ghost[i+1] records, for campaign i: how many payouts succeeded and what
\* they paid, the sum of the accepted donations, and whether an accepted
\* donation left donated >= goal.
NoGhost ==
    [payouts |-> 0, paid |-> 0, accepted |-> 0, reached |-> FALSE]

\* The accounts' balances before the first transaction: the administrator
\* holds nothing, alice one unit, bob InitBalance units.
InitialBalance ==
    [a \in Addresses |->
        IF a = admin_address THEN 0 ELSE IF a = "alice" THEN 1 ELSE InitBalance]

Init ==
    /\ store = [a \in Addresses |-> NoCampaignStore]
    /\ funds = [a \in Addresses |-> NoCampaignFunds]
    /\ balance = InitialBalance
    /\ ghost = <<>>

Initialize(admin) ==
    /\ Commit(initialize(world, admin))
    /\ UNCHANGED ghost

CreateCampaign(creator, title, description, goal) ==
    /\ Len(campaigns) < MaxCampaigns
    /\ create_campaign_result(world, creator, title, description, goal) = Ok
    /\ Commit(create_campaign(world, creator, title, description, goal))
    /\ ghost' = Append(ghost, NoGhost)

Donate(donor, campaign_index, amount) ==
    /\ donate_result(world, donor, campaign_index, amount) = Ok
    /\ Commit(donate(world, donor, campaign_index, amount))
    /\ ghost' = [ghost EXCEPT ![campaign_index + 1] =
                    [@ EXCEPT !.accepted = @ + amount,
                              !.reached = @ \/
                                  (Borrow(world, campaign_index).donated + amount
                                       >= Borrow(world, campaign_index).goal)]]

Paid(campaign_index) ==
    [ghost EXCEPT ![campaign_index + 1] =
        [@ EXCEPT !.payouts = @ + 1,
                  !.paid = @ + Borrow(world, campaign_index).donated]]

Withdraw(owner, campaign_index) ==
    /\ withdraw_result(world, owner, campaign_index) = Ok
    /\ Commit(withdraw(world, owner, campaign_index))
    /\ ghost' = Paid(campaign_index)

AdminWithdraw(admin, campaign_index) ==
    /\ admin_withdraw_result(world, admin, campaign_index) = Ok
    /\ Commit(admin_withdraw(world, admin, campaign_index))
    /\ ghost' = Paid(campaign_index)

Next ==
    \/ \E a \in InitSigners : Initialize(a)
    \/ \E a \in Creators, t \in Titles, d \in Descriptions, g \in Goals :
           CreateCampaign(a, t, d, g)
    \/ \E a \in Addresses, i \in Indices, m \in Amounts : Donate(a, i, m)
    \/ \E a \in Addresses, i \in Indices : Withdraw(a, i)
    \/ \E a \in Addresses, i \in Indices : AdminWithdraw(a, i)

Spec == Init /\ [][Next]_vars

\* The same transactions, with initialize signed by the administrator or by
\* another account.
AnySigners == {admin_address, "alice"}

NextAnySigner ==
    \/ \E a \in AnySigners : Initialize(a)
    \/ \E a \in Creators, t \in Titles, d \in Descriptions, g \in Goals :
           CreateCampaign(a, t, d, g)
    \/ \E a \in Addresses, i \in Indices, m \in Amounts : Donate(a, i, m)
    \/ \E a \in Addresses, i \in Indices : Withdraw(a, i)
    \/ \E a \in Addresses, i \in Indices : AdminWithdraw(a, i)

SpecAnySigner == Init /\ [][NextAnySigner]_vars

\* The same transactions, with every campaign created with the goal MaxGoal.
PositiveGoals == {MaxGoal}

NextPositiveGoal ==
    \/ \E a \in InitSigners : Initialize(a)
    \/ \E a \in Creators, t \in Titles, d \in Descriptions, g \in PositiveGoals :
           CreateCampaign(a, t, d, g)
    \/ \E a \in Addresses, i \in Indices, m \in Amounts : Donate(a, i, m)
    \/ \E a \in Addresses, i \in Indices : Withdraw(a, i)
    \/ \E a \in Addresses, i \in Indices : AdminWithdraw(a, i)

SpecPositiveGoal == Init /\ [][NextPositiveGoal]_vars

\* The same transactions with amounts at the ends of the u64 range: alice
\* holds half the range (the coin supply stays within u64), goals are 0, half
\* the range or all of it, and donations are of nothing or of half the range.
Half == 2^(U64Bits - 1)
OverflowGoals == {0, Half, MAX_U64}
OverflowAmounts == {0, Half}

OverflowBalance == [a \in Addresses |-> IF a = "alice" THEN Half ELSE 0]

InitOverflow ==
    /\ store = [a \in Addresses |-> NoCampaignStore]
    /\ funds = [a \in Addresses |-> NoCampaignFunds]
    /\ balance = OverflowBalance
    /\ ghost = <<>>

NextOverflow ==
    \/ \E a \in InitSigners : Initialize(a)
    \/ \E a \in Creators, t \in Titles, d \in Descriptions, g \in OverflowGoals :
           CreateCampaign(a, t, d, g)
    \/ \E a \in Addresses, i \in Indices, m \in OverflowAmounts : Donate(a, i, m)
    \/ \E a \in Addresses, i \in Indices : Withdraw(a, i)
    \/ \E a \in Addresses, i \in Indices : AdminWithdraw(a, i)

SpecOverflow == InitOverflow /\ [][NextOverflow]_vars

\* ------------------------------------------------------------------ claims
\* The sequence positions of the campaigns (position k holds index k - 1).
Positions == DOMAIN campaigns
Existing == {i \in Indices : i < Len(campaigns)}

\* C1: for every campaign at most one payout succeeds, over withdraw and
\* admin_withdraw together: the number of successful payouts is 1 when
\* withdrawn is set and 0 when it is not, so withdrawn is set by the one
\* payout and never reset.
C1_SinglePayout ==
    \A k \in Positions :
        ghost[k].payouts = IF campaigns[k].withdrawn THEN 1 ELSE 0

\* A campaign has been paid out a positive amount while the pool still holds
\* enough to pay that amount again.
C1_Witness ==
    \E k \in Positions :
        /\ campaigns[k].withdrawn
        /\ campaigns[k].completed
        /\ ghost[k].paid > 0
        /\ treasury >= campaigns[k].donated

\* C2: a successful withdraw(owner, i) takes exactly campaigns[i].donated out
\* of the pool, adds exactly that to the owner's balance, sets withdrawn, and
\* changes nothing else in the storage.
C2_WithdrawEffect ==
    \A a \in Addresses, i \in Indices :
        withdraw_result(world, a, i) = Ok =>
            LET c == Borrow(world, i)
                w2 == withdraw(world, a, i) IN
            /\ a = c.owner
            /\ Treasury(w2) = treasury - c.donated
            /\ w2.funds = [funds EXCEPT ![admin_address].value = @ - c.donated]
            /\ w2.balance = [balance EXCEPT ![a] = @ + c.donated]
            /\ w2.store =
                   [store EXCEPT ![admin_address].campaigns[i + 1].withdrawn = TRUE]

\* The owner's withdraw succeeds on a campaign whose total is above its
\* positive goal and whose owner is not the administrator.
C2_Witness ==
    \E a \in Addresses \ {admin_address}, i \in Existing :
        /\ withdraw_result(world, a, i) = Ok
        /\ Borrow(world, i).goal > 0
        /\ Borrow(world, i).donated > Borrow(world, i).goal

\* C3 (as claimed): every campaign with withdrawn = true has completed = true.
C3_WithdrawnImpliesCompleted ==
    \A k \in Positions : campaigns[k].withdrawn => campaigns[k].completed

\* C3 (amended): withdraw sets withdrawn only on a campaign with completed =
\* true, so a campaign paid out through withdraw is withdrawn and completed;
\* withdrawn = true with completed = false comes from admin_withdraw alone.
C3_OwnerWithdrawnImpliesCompleted ==
    \A a \in Addresses, i \in Indices :
        withdraw_result(world, a, i) = Ok =>
            /\ Borrow(world, i).completed
            /\ Borrow(withdraw(world, a, i), i).completed
            /\ Borrow(withdraw(world, a, i), i).withdrawn

\* The owner's withdraw succeeds on one campaign while another campaign is
\* withdrawn and not completed.
C3_Witness ==
    /\ \E a \in Addresses, i \in Existing : withdraw_result(world, a, i) = Ok
    /\ \E k \in Positions : campaigns[k].withdrawn /\ ~campaigns[k].completed

\* C4 (as claimed): once withdrawn is set, withdraw and admin_withdraw on that
\* index abort with E_ALREADY_WITHDRAWN for every caller, changing nothing.
C4_AlwaysAlreadyWithdrawn ==
    \A i \in Existing : Borrow(world, i).withdrawn =>
        \A a \in Addresses :
            /\ withdraw_result(world, a, i) = Abort(E_ALREADY_WITHDRAWN)
            /\ admin_withdraw_result(world, a, i) = Abort(E_ALREADY_WITHDRAWN)
            /\ withdraw(world, a, i) = world
            /\ admin_withdraw(world, a, i) = world

\* C4 (amended): once withdrawn is set, withdraw and admin_withdraw on that
\* index abort for every caller, changing nothing; the code is
\* E_ALREADY_WITHDRAWN when the caller passes the earlier checks (the owner of
\* a completed campaign for withdraw, the administrator for admin_withdraw),
\* and E_NOT_OWNER or E_GOAL_NOT_REACHED from those checks otherwise.
C4_AfterWithdrawn ==
    \A i \in Existing : Borrow(world, i).withdrawn =>
        \A a \in Addresses :
            LET c == Borrow(world, i) IN
            /\ withdraw_result(world, a, i) =
                   IF c.owner # a THEN Abort(E_NOT_OWNER)
                   ELSE IF ~c.completed THEN Abort(E_GOAL_NOT_REACHED)
                   ELSE Abort(E_ALREADY_WITHDRAWN)
            /\ admin_withdraw_result(world, a, i) =
                   IF a = admin_address THEN Abort(E_ALREADY_WITHDRAWN)
                   ELSE Abort(E_NOT_OWNER)
            /\ withdraw(world, a, i) = world
            /\ admin_withdraw(world, a, i) = world

\* A withdrawn, completed campaign of a non-administrator, with a positive
\* total that the pool could pay once more.
C4_Witness ==
    \E k \in Positions :
        /\ campaigns[k].withdrawn
        /\ campaigns[k].completed
        /\ campaigns[k].owner # admin_address
        /\ campaigns[k].donated > 0
        /\ treasury >= campaigns[k].donated

Lifecycle(c) ==
    IF c.withdrawn THEN "Withdrawn"
    ELSE IF c.completed THEN "Completed"
    ELSE "Active"

\* C5: per campaign the lifecycle state changes only Active -> Completed,
\* Completed -> Withdrawn or Active -> Withdrawn, and no transaction changes
\* any field of a campaign whose withdrawn flag is set.
C5_WithdrawnIsTerminal ==
    [][\A k \in Positions :
          /\ \/ Lifecycle(campaigns'[k]) = Lifecycle(campaigns[k])
             \/ <<Lifecycle(campaigns[k]), Lifecycle(campaigns'[k])>> \in
                    {<<"Active", "Completed">>, <<"Completed", "Withdrawn">>,
                     <<"Active", "Withdrawn">>}
          /\ campaigns[k].withdrawn => campaigns'[k] = campaigns[k]]_vars

\* C6: donated equals the sum of the amounts of the accepted donations (so it
\* never decreases and is not capped at the goal), and a rejected donate
\* changes nothing.
C6_DonatedIsSumOfAccepted ==
    /\ \A k \in Positions : campaigns[k].donated = ghost[k].accepted
    /\ \A a \in Addresses, i \in Indices, m \in Amounts :
           donate_result(world, a, i, m) # Ok => donate(world, a, i, m) = world

\* Donations have been accepted beyond a positive goal.
C6_Witness ==
    \E k \in Positions :
        /\ campaigns[k].goal > 0
        /\ ghost[k].accepted > campaigns[k].goal

\* C7: completed is true exactly when an accepted donation has left
\* donated >= goal; it is set by that donation and never cleared.
C7_CompletedIffReached ==
    \A k \in Positions : campaigns[k].completed <=> ghost[k].reached

\* A donation has brought donated to exactly a positive goal.
C7_Witness ==
    \E k \in Positions :
        /\ campaigns[k].goal > 0
        /\ campaigns[k].donated = campaigns[k].goal
        /\ campaigns[k].completed

\* C8: withdraw on an existing campaign aborts with E_NOT_OWNER when the
\* caller is not the owner, otherwise with E_GOAL_NOT_REACHED when completed
\* is false, otherwise with E_ALREADY_WITHDRAWN when withdrawn is true; every
\* abort leaves the storage as it was.
C8_WithdrawFailures ==
    \A a \in Addresses, i \in Existing :
        LET c == Borrow(world, i)
            r == withdraw_result(world, a, i) IN
        /\ c.owner # a => r = Abort(E_NOT_OWNER)
        /\ (c.owner = a /\ ~c.completed) => r = Abort(E_GOAL_NOT_REACHED)
        /\ (c.owner = a /\ c.completed /\ c.withdrawn)
               => r = Abort(E_ALREADY_WITHDRAWN)
        /\ r # Ok => withdraw(world, a, i) = world

\* Two campaigns on which the order of the checks shows: one withdrawn and
\* not completed, one withdrawn and completed.
C8_Witness ==
    \E j, k \in Positions :
        /\ campaigns[j].withdrawn /\ ~campaigns[j].completed
        /\ campaigns[k].withdrawn /\ campaigns[k].completed

\* C9: admin_withdraw by anyone but the administrator, the owner of the
\* campaign included, aborts with E_NOT_OWNER and changes nothing; withdraw
\* by the administrator on a campaign of another owner aborts with
\* E_NOT_OWNER and changes nothing.
C9_AdminOnly ==
    /\ \A a \in Addresses \ {admin_address}, i \in Indices :
           /\ admin_withdraw_result(world, a, i) = Abort(E_NOT_OWNER)
           /\ admin_withdraw(world, a, i) = world
    /\ \A i \in Existing :
           Borrow(world, i).owner # admin_address =>
               /\ withdraw_result(world, admin_address, i) = Abort(E_NOT_OWNER)
               /\ withdraw(world, admin_address, i) = world

\* A campaign of a non-administrator that is completed, funded and not yet
\* withdrawn: its owner may withdraw, the administrator may admin_withdraw.
C9_Witness ==
    \E k \in Positions :
        /\ campaigns[k].owner # admin_address
        /\ campaigns[k].completed
        /\ ~campaigns[k].withdrawn
        /\ campaigns[k].donated > 0

\* C10: admin_withdraw by the administrator on a campaign not yet withdrawn
\* succeeds whether or not it is completed and whatever its total; it takes
\* exactly donated out of the pool, adds it to the balance of the campaign's
\* owner and to no other balance, and sets withdrawn.
C10_AdminWithdrawEffect ==
    \A i \in Existing : ~Borrow(world, i).withdrawn =>
        LET c == Borrow(world, i)
            w2 == admin_withdraw(world, admin_address, i) IN
        /\ admin_withdraw_result(world, admin_address, i) = Ok
        /\ w2.funds = [funds EXCEPT ![admin_address].value = @ - c.donated]
        /\ w2.balance = [balance EXCEPT ![c.owner] = @ + c.donated]
        /\ w2.store =
               [store EXCEPT ![admin_address].campaigns[i + 1].withdrawn = TRUE]

\* admin_withdraw has paid a positive total of a campaign that is not
\* completed to an owner who is not the administrator (withdraw pays only
\* completed campaigns), and has also paid out a campaign with no donations.
C10_Witness ==
    \E j, k \in Positions :
        /\ campaigns[j].withdrawn
        /\ ~campaigns[j].completed
        /\ ghost[j].paid > 0
        /\ campaigns[j].owner # admin_address
        /\ campaigns[k].withdrawn
        /\ ~campaigns[k].completed
        /\ ghost[k].paid = 0
        /\ campaigns[k].donated = 0

\* C11: whenever a campaign is completed and not withdrawn, withdraw by its
\* owner runs to its end: no assertion fails, the pool holds at least the
\* campaign's total whatever has been paid out for other campaigns, and the
\* deposit does not overflow.
C11_OwnerWithdrawSucceeds ==
    \A i \in Existing :
        (Borrow(world, i).completed /\ ~Borrow(world, i).withdrawn) =>
            withdraw_result(world, Borrow(world, i).owner, i) = Ok

\* A completed campaign with a positive total waits for its payout after
\* another campaign has been paid a positive amount.
C11_Witness ==
    \E j, k \in Positions :
        /\ campaigns[j].completed /\ ~campaigns[j].withdrawn
        /\ campaigns[j].donated > 0
        /\ campaigns[k].withdrawn
        /\ ghost[k].paid > 0

\* C12 (as claimed): donate with campaign_index >= the number of campaigns
\* aborts with E_CAMPAIGN_NOT_FOUND for every donor and amount and changes
\* nothing.
C12_DonateNotFound ==
    \A a \in Addresses, i \in Indices, m \in Amounts :
        ~(i < get_campaign_count(world)) =>
            /\ donate_result(world, a, i, m) = Abort(E_CAMPAIGN_NOT_FOUND)
            /\ donate(world, a, i, m) = world

\* C12 (amended): once the store exists, donate with campaign_index >= the
\* number of campaigns aborts with E_CAMPAIGN_NOT_FOUND for every donor and
\* amount; before initialize it aborts on the missing CampaignStore instead;
\* in both cases nothing changes.
C12_DonateNotFoundInitialized ==
    \A a \in Addresses, i \in Indices, m \in Amounts :
        ~(i < get_campaign_count(world)) =>
            /\ donate_result(world, a, i, m) =
                   IF store[admin_address].exists
                   THEN Abort(E_CAMPAIGN_NOT_FOUND) ELSE MissingResource
            /\ donate(world, a, i, m) = world

\* One campaign exists and accepts donations, so that the next index is the
\* first one out of range, and a donor can pay the largest amount.
C12_Witness ==
    /\ Len(campaigns) = 1
    /\ ~campaigns[1].completed
    /\ \E a \in Addresses : balance[a] >= MaxAmount

\* C13: donate on a completed campaign aborts with E_CAMPAIGN_COMPLETED for
\* every donor and amount, also when the donor's balance is below the amount,
\* and changes nothing.
C13_DonateCompleted ==
    \A i \in Existing : Borrow(world, i).completed =>
        \A a \in Addresses, m \in Amounts :
            /\ donate_result(world, a, i, m) = Abort(E_CAMPAIGN_COMPLETED)
            /\ donate(world, a, i, m) = world

\* A completed campaign, a donor who cannot pay one unit and a donor who can.
C13_Witness ==
    /\ \E k \in Positions : campaigns[k].completed /\ campaigns[k].donated > 0
    /\ \E a \in Addresses : balance[a] = 0
    /\ \E a \in Addresses : balance[a] > 0

\* C14: donate with an amount above the donor's balance does not run to its
\* end and changes nothing; a donate that runs to its end takes exactly amount
\* from the donor and adds exactly amount to the pool.
C14_DonateTransfer ==
    \A a \in Addresses, i \in Indices, m \in Amounts :
        LET r == donate_result(world, a, i, m)
            w2 == donate(world, a, i, m) IN
        /\ balance[a] < m => (r # Ok /\ w2 = world)
        /\ r = Ok =>
               /\ w2.balance = [balance EXCEPT ![a] = @ - m]
               /\ w2.funds = [funds EXCEPT ![admin_address].value = @ + m]

\* After an accepted donation, a campaign still accepts donations, one donor
\* cannot pay the largest amount and another can pay a positive amount.
C14_Witness ==
    /\ treasury > 0
    /\ \E k \in Positions : ~campaigns[k].completed
    /\ \E a \in Addresses : balance[a] < MaxAmount
    /\ \E a \in Addresses : balance[a] > 0

\* C15: once the administrator has initialized, initialize by any signer runs
\* to its end and leaves the administrator's CampaignStore (campaigns and
\* next_id) and CampaignFunds as they were; signed by the administrator it
\* changes nothing at all.
C15_InitializeIdempotent ==
    store[admin_address].exists =>
        /\ initialize(world, admin_address) = world
        /\ \A a \in Addresses :
               /\ initialize(world, a).store[admin_address] = store[admin_address]
               /\ initialize(world, a).funds[admin_address] = funds[admin_address]
               /\ initialize(world, a).balance = balance

\* The store holds campaigns and the pool holds coins.
C15_Witness ==
    /\ store[admin_address].exists
    /\ Len(campaigns) > 0
    /\ treasury > 0

\* C16: no call creates a CampaignStore or a CampaignFunds under an address
\* other than the administrator's.
C16_OnlyAdminStore ==
    \A a \in Addresses \ {admin_address} :
        ~store[a].exists /\ ~funds[a].exists

\* C17: once the store exists, create_campaign by any caller with any goal
\* runs to its end and appends exactly one campaign, at index = the previous
\* count, with the caller as owner, the given title, description and goal,
\* donated = 0, completed = false, withdrawn = false; next_id grows by one;
\* the pool and the balances are unchanged.
C17_CreateCampaignEffect ==
    store[admin_address].exists =>
        \A a \in Addresses, t \in Titles, d \in Descriptions, g \in Goals :
            LET w2 == create_campaign(world, a, t, d, g) IN
            /\ create_campaign_result(world, a, t, d, g) = Ok
            /\ Length(w2) = Len(campaigns) + 1
            /\ SubSeq(Campaigns(w2), 1, Len(campaigns)) = campaigns
            /\ Borrow(w2, Len(campaigns)) =
                   [owner |-> a, title |-> t, description |-> d, goal |-> g,
                    donated |-> 0, completed |-> FALSE, withdrawn |-> FALSE]
            /\ w2.store[admin_address].next_id = store[admin_address].next_id + 1
            /\ w2.store = [store EXCEPT ![admin_address] = w2.store[admin_address]]
            /\ w2.funds = funds
            /\ w2.balance = balance

\* A campaign with goal 0 has been created by a non-administrator at index 1
\* while the pool holds coins.
C17_Witness ==
    /\ Len(campaigns) = 2
    /\ campaigns[2].owner # admin_address
    /\ campaigns[2].goal = 0
    /\ campaigns[2].donated = 0 /\ ~campaigns[2].completed
    /\ treasury > 0

\* C18: the number of campaigns never decreases, and every campaign keeps its
\* index, owner, title, description and goal.
C18_AppendOnly ==
    [][/\ Len(campaigns') >= Len(campaigns)
       /\ \A k \in Positions :
              /\ campaigns'[k].owner = campaigns[k].owner
              /\ campaigns'[k].title = campaigns[k].title
              /\ campaigns'[k].description = campaigns[k].description
              /\ campaigns'[k].goal = campaigns[k].goal]_vars

\* Two campaigns that differ in owner and goal, one paid out and one funded.
C18_Witness ==
    /\ Len(campaigns) = 2
    /\ campaigns[1].owner # campaigns[2].owner
    /\ campaigns[1].goal # campaigns[2].goal
    /\ campaigns[1].withdrawn
    /\ campaigns[2].donated > 0

\* C19: get_campaign_count returns 0 before initialize and the length of the
\* campaigns vector afterwards, which equals the number of create_campaign
\* calls that ran to their end and equals next_id.
C19_CampaignCount ==
    /\ ~store[admin_address].exists => get_campaign_count(world) = 0
    /\ store[admin_address].exists => get_campaign_count(world) = Len(campaigns)
    /\ get_campaign_count(world) = Len(ghost)
    /\ get_campaign_count(world) = store[admin_address].next_id

\* Two campaigns have been created.
C19_Witness ==
    get_campaign_count(world) = 2 /\ Len(ghost) = 2

\* C20 (as claimed): get_campaign aborts with E_CAMPAIGN_NOT_FOUND for every
\* index that is out of range, also when the store does not exist, and
\* returns the stored fields for an index in range.
C20_GetCampaign ==
    \A i \in Indices :
        IF i < get_campaign_count(world)
        THEN /\ get_campaign_result(world, i) = Ok
             /\ get_campaign(world, i) =
                    <<campaigns[i + 1].owner, campaigns[i + 1].title,
                      campaigns[i + 1].description, campaigns[i + 1].goal,
                      campaigns[i + 1].donated, campaigns[i + 1].completed,
                      campaigns[i + 1].withdrawn>>
        ELSE get_campaign_result(world, i) = Abort(E_CAMPAIGN_NOT_FOUND)

\* C20 (amended): once the store exists, get_campaign aborts with
\* E_CAMPAIGN_NOT_FOUND for every index that is out of range and returns the
\* stored fields for an index in range; before initialize it aborts on the
\* missing CampaignStore, not with E_CAMPAIGN_NOT_FOUND.
C20_GetCampaignInitialized ==
    \A i \in Indices :
        IF ~store[admin_address].exists
        THEN get_campaign_result(world, i) = MissingResource
        ELSE IF i < get_campaign_count(world)
        THEN /\ get_campaign_result(world, i) = Ok
             /\ get_campaign(world, i) =
                    <<campaigns[i + 1].owner, campaigns[i + 1].title,
                      campaigns[i + 1].description, campaigns[i + 1].goal,
                      campaigns[i + 1].donated, campaigns[i + 1].completed,
                      campaigns[i + 1].withdrawn>>
        ELSE get_campaign_result(world, i) = Abort(E_CAMPAIGN_NOT_FOUND)

\* One campaign exists, funded and completed: index 0 is in range, index 1 is
\* the first out of range.
C20_Witness ==
    /\ Len(campaigns) = 1
    /\ campaigns[1].completed
    /\ campaigns[1].donated > 0

\* C21: for every address X, get_campaigns_by_owner(X) is strictly ascending
\* (so no index occurs twice), holds only indices of campaigns owned by X,
\* holds every such index, and is empty while the store does not exist.
C21_CampaignsByOwner ==
    \A x \in Addresses :
        LET r == get_campaigns_by_owner(world, x) IN
        /\ \A p, q \in DOMAIN r : p < q => r[p] < r[q]
        /\ \A p \in DOMAIN r : r[p] \in Existing /\ Borrow(world, r[p]).owner = x
        /\ \A i \in Existing : Borrow(world, i).owner = x =>
               \E p \in DOMAIN r : r[p] = i
        /\ ~store[admin_address].exists => r = <<>>

\* Two owners hold one campaign each: the administrator campaign 0 and alice
\* campaign 1, so each result leaves out an index of the other.
C21_Witness ==
    /\ get_campaigns_by_owner(world, admin_address) = <<0>>
    /\ get_campaigns_by_owner(world, "alice") = <<1>>
    /\ get_campaigns_by_owner(world, "bob") = <<>>

\* C22: create_campaign with goal 0 is accepted and the campaign starts with
\* completed = false; any donate to it that succeeds, whatever the amount,
\* leaves it completed; and while no donation to it has been accepted (for
\* goal 0 that is ghost.reached = FALSE) it is not completed and its owner's
\* withdraw aborts with E_GOAL_NOT_REACHED.
C22_ZeroGoal ==
    /\ store[admin_address].exists =>
           \A a \in Addresses, t \in Titles, d \in Descriptions :
               /\ create_campaign_result(world, a, t, d, 0) = Ok
               /\ LET c == Borrow(create_campaign(world, a, t, d, 0),
                                  Len(campaigns)) IN
                  c.goal = 0 /\ ~c.completed
    /\ \A i \in Existing : Borrow(world, i).goal = 0 =>
           /\ Borrow(world, i).completed <=> ghost[i + 1].reached
           /\ \A a \in Addresses, m \in Amounts :
                  donate_result(world, a, i, m) = Ok =>
                      Borrow(donate(world, a, i, m), i).completed
           /\ ~ghost[i + 1].reached =>
                  withdraw_result(world, Borrow(world, i).owner, i) =
                      Abort(E_GOAL_NOT_REACHED)

\* One campaign with goal 0 was completed by a donation of nothing, another
\* with goal 0 has had no donation yet.
C22_Witness ==
    \E j, k \in Positions :
        /\ campaigns[j].goal = 0 /\ campaigns[j].completed
        /\ campaigns[j].donated = 0 /\ ghost[j].reached
        /\ campaigns[k].goal = 0 /\ ~ghost[k].reached

\* The donate and withdraw calls, as values: who signs, on which index, and
\* for donate with what amount.
Calls ==
    [op : {"donate"}, who : Addresses, index : Indices, amount : Amounts]
        \cup [op : {"withdraw"}, who : Addresses, index : Indices, amount : {0}]

call_result(w, c) ==
    IF c.op = "donate" THEN donate_result(w, c.who, c.index, c.amount)
    ELSE withdraw_result(w, c.who, c.index)

call(w, c) ==
    IF c.op = "donate" THEN donate(w, c.who, c.index, c.amount)
    ELSE withdraw(w, c.who, c.index)

\* From the current state, c1 and c2 return the same in either order and the
\* two orders end in the same storage.
Independent(c1, c2) ==
    LET w1 == call(world, c1)
        w2 == call(world, c2) IN
    /\ call_result(w1, c2) = call_result(world, c2)
    /\ call_result(w2, c1) = call_result(world, c1)
    /\ call(w1, c2) = call(w2, c1)

OkCalls == {c \in Calls : call_result(world, c) = Ok}

RECURSIVE Owed(_)
Owed(cs) ==
    IF cs = <<>> THEN 0
    ELSE (IF Head(cs).withdrawn THEN 0 ELSE Head(cs).donated) + Owed(Tail(cs))

\* C24: the pool holds at least the sum of donated over the campaigns not yet
\* withdrawn; no withdraw or admin_withdraw aborts in coin::extract for lack
\* of funds; and after a payout the pool still covers the other campaigns.
C24_TreasuryCoversOwed ==
    /\ treasury >= Owed(campaigns)
    /\ \A a \in Addresses, i \in Indices :
           /\ withdraw_result(world, a, i) # CoinAbort
           /\ admin_withdraw_result(world, a, i) # CoinAbort
           /\ withdraw_result(world, a, i) = Ok =>
                  Treasury(withdraw(world, a, i)) >=
                      Owed(Campaigns(withdraw(world, a, i)))
           /\ admin_withdraw_result(world, a, i) = Ok =>
                  Treasury(admin_withdraw(world, a, i)) >=
                      Owed(Campaigns(admin_withdraw(world, a, i)))

\* One campaign has been paid out, another is still owed a positive total,
\* and the pool holds more than what is owed.
C24_Witness ==
    /\ Owed(campaigns) > 0
    /\ treasury > Owed(campaigns)
    /\ \E k \in Positions : campaigns[k].withdrawn

\* C25 (as claimed): for every withdrawn campaign what was paid to its owner
\* equals its donated value, and the pool equals the sum of donated over the
\* campaigns not yet withdrawn.  donate does not read withdrawn: after an
\* admin_withdraw on a campaign below its goal a donation is still accepted,
\* and no later call can pay it out.
C25_NoStrandedFunds ==
    /\ \A k \in Positions :
           campaigns[k].withdrawn => ghost[k].paid = campaigns[k].donated
    /\ treasury = Owed(campaigns)

\* The sum of the balances b of the accounts in S.
RECURSIVE SumBalances(_, _)
SumBalances(b, S) ==
    IF S = {} THEN 0
    ELSE LET a == CHOOSE x \in S : TRUE IN b[a] + SumBalances(b, S \ {a})

\* The coins in the pool and in the accounts together.
Total(w) == Treasury(w) + SumBalances(w.balance, Addresses)

\* C26: the pool plus the balances of all accounts is what the accounts held
\* at the start, and no call changes it; initialize and create_campaign leave
\* the pool as it is, a donate that succeeds adds exactly the amount, a
\* withdraw or admin_withdraw that succeeds never adds to it.  (A call that
\* aborts is rolled back: it returns the storage it was given.)
C26_FundsConserved ==
    LET total == Total(world) IN
    /\ total = SumBalances(InitialBalance, Addresses)
    /\ \A a \in Addresses :
           /\ initialize(world, a).balance = balance
           /\ Treasury(initialize(world, a)) = treasury
           /\ \A t \in Titles, d \in Descriptions, g \in Goals :
                  create_campaign_result(world, a, t, d, g) = Ok =>
                      /\ create_campaign(world, a, t, d, g).balance = balance
                      /\ create_campaign(world, a, t, d, g).funds = funds
           /\ \A i \in Indices :
                  /\ \A m \in Amounts :
                         donate_result(world, a, i, m) = Ok =>
                             /\ Total(donate(world, a, i, m)) = total
                             /\ Treasury(donate(world, a, i, m)) = treasury + m
                  /\ withdraw_result(world, a, i) = Ok =>
                         /\ Total(withdraw(world, a, i)) = total
                         /\ Treasury(withdraw(world, a, i)) <= treasury
                  /\ admin_withdraw_result(world, a, i) = Ok =>
                         /\ Total(admin_withdraw(world, a, i)) = total
                         /\ Treasury(admin_withdraw(world, a, i)) <= treasury

\* bob has given all his coins, an owner has been paid a positive amount,
\* and the pool still holds coins.
C26_Witness ==
    /\ balance["bob"] = 0
    /\ treasury > 0
    /\ \E k \in Positions : ghost[k].paid > 0

\* In w2 the store has as many campaigns and the same next_id as now, and
\* every campaign but the one at index i is as it is now.
OthersUnchanged(w2, i) ==
    /\ w2.store[admin_address].exists = store[admin_address].exists
    /\ Length(w2) = Len(campaigns)
    /\ w2.store[admin_address].next_id = store[admin_address].next_id
    /\ \A j \in Existing : j # i => Borrow(w2, j) = Borrow(world, j)

\* C27: a donate, withdraw or admin_withdraw on index i that succeeds leaves
\* every other campaign, the number of campaigns and next_id as they are; of
\* campaign i donate changes at most donated and completed, withdraw and
\* admin_withdraw at most withdrawn.  (A call that aborts is rolled back: it
\* returns the storage it was given.)
C27_Frame ==
    \A a \in Addresses, i \in Indices :
        /\ \A m \in Amounts :
               donate_result(world, a, i, m) = Ok =>
                   LET w2 == donate(world, a, i, m) IN
                   /\ OthersUnchanged(w2, i)
                   /\ Borrow(w2, i) =
                          [Borrow(world, i) EXCEPT
                              !.donated = Borrow(w2, i).donated,
                              !.completed = Borrow(w2, i).completed]
        /\ withdraw_result(world, a, i) = Ok =>
               LET w2 == withdraw(world, a, i) IN
               /\ OthersUnchanged(w2, i)
               /\ Borrow(w2, i) =
                      [Borrow(world, i) EXCEPT
                          !.withdrawn = Borrow(w2, i).withdrawn]
        /\ admin_withdraw_result(world, a, i) = Ok =>
               LET w2 == admin_withdraw(world, a, i) IN
               /\ OthersUnchanged(w2, i)
               /\ Borrow(w2, i) =
                      [Borrow(world, i) EXCEPT
                          !.withdrawn = Borrow(w2, i).withdrawn]

\* Two campaigns in different stages: one completed and paid out a positive
\* amount, the other below its goal with a positive total and open to
\* donate and admin_withdraw.
C27_Witness ==
    \E j, k \in Positions :
        /\ campaigns[j].completed /\ campaigns[j].withdrawn
        /\ ghost[j].paid > 0
        /\ ~campaigns[k].completed /\ ~campaigns[k].withdrawn
        /\ campaigns[k].donated > 0
        /\ \E a \in Addresses : balance[a] > 0

\* C28 (as claimed): withdraw on an index >= the number of campaigns aborts
\* with E_CAMPAIGN_NOT_FOUND; admin_withdraw on such an index aborts with
\* E_NOT_OWNER when the caller is not the administrator and with
\* E_CAMPAIGN_NOT_FOUND when it is; neither changes anything.
C28_PayoutNotFound ==
    \A a \in Addresses, i \in Indices :
        ~(i < get_campaign_count(world)) =>
            /\ withdraw_result(world, a, i) = Abort(E_CAMPAIGN_NOT_FOUND)
            /\ withdraw(world, a, i) = world
            /\ admin_withdraw_result(world, a, i) =
                   IF a = admin_address THEN Abort(E_CAMPAIGN_NOT_FOUND)
                   ELSE Abort(E_NOT_OWNER)
            /\ admin_withdraw(world, a, i) = world

\* C28 (amended): the same once the store exists; before initialize, withdraw
\* by anyone and admin_withdraw by the administrator abort on the missing
\* CampaignStore instead of E_CAMPAIGN_NOT_FOUND, while admin_withdraw by
\* another caller still aborts with E_NOT_OWNER; nothing changes in any case.
C28_PayoutNotFoundInitialized ==
    \A a \in Addresses, i \in Indices :
        ~(i < get_campaign_count(world)) =>
            LET not_found == IF store[admin_address].exists
                             THEN Abort(E_CAMPAIGN_NOT_FOUND)
                             ELSE MissingResource IN
            /\ withdraw_result(world, a, i) = not_found
            /\ withdraw(world, a, i) = world
            /\ admin_withdraw_result(world, a, i) =
                   IF a = admin_address THEN not_found ELSE Abort(E_NOT_OWNER)
            /\ admin_withdraw(world, a, i) = world

\* One campaign exists, owned by another account than the administrator,
\* completed and not paid out: index 0 can be paid out, index 1 is out of
\* range.
C28_Witness ==
    /\ Len(campaigns) = 1
    /\ campaigns[1].owner # admin_address
    /\ campaigns[1].completed /\ ~campaigns[1].withdrawn
    /\ campaigns[1].donated > 0

\* C29: while the administrator's CampaignStore does not exist (only an
\* initialize signed by the administrator creates it), every create_campaign,
\* donate, withdraw and admin_withdraw aborts and changes nothing,
\* get_campaign_count is 0, get_all_campaigns and get_campaigns_by_owner are
\* empty, and an initialize signed by another account leaves the
\* administrator's store and pool absent.
C29_BeforeInitialize ==
    ~store[admin_address].exists =>
        /\ ~funds[admin_address].exists
        /\ get_campaign_count(world) = 0
        /\ get_all_campaigns(world) = <<>>
        /\ \A a \in Addresses :
               /\ get_campaigns_by_owner(world, a) = <<>>
               /\ a # admin_address =>
                      /\ ~initialize(world, a).store[admin_address].exists
                      /\ ~initialize(world, a).funds[admin_address].exists
                      /\ initialize(world, a).balance = balance
               /\ \A t \in Titles, d \in Descriptions, g \in Goals :
                      /\ create_campaign_result(world, a, t, d, g) # Ok
                      /\ create_campaign(world, a, t, d, g) = world
               /\ \A i \in Indices :
                      /\ \A m \in Amounts :
                             /\ donate_result(world, a, i, m) # Ok
                             /\ donate(world, a, i, m) = world
                      /\ withdraw_result(world, a, i) # Ok
                      /\ withdraw(world, a, i) = world
                      /\ admin_withdraw_result(world, a, i) # Ok
                      /\ admin_withdraw(world, a, i) = world

\* alice has signed an initialize, the administrator has not.
C29_Witness ==
    /\ store["alice"].exists /\ funds["alice"].exists
    /\ ~store[admin_address].exists

\* C30: no campaign's donated exceeds MAX_U64, and a donate whose amount
\* added to donated would exceed MAX_U64 aborts and changes nothing, for
\* every donor and every amount in the u64 range.
C30_NoWrap ==
    /\ \A k \in Positions : campaigns[k].donated <= MAX_U64
    /\ \A a \in Addresses, i \in Existing, m \in 0..MAX_U64 :
           Borrow(world, i).donated + m > MAX_U64 =>
               /\ donate_result(world, a, i, m) # Ok
               /\ donate(world, a, i, m) = world

\* A donor holds the amount, the pool has room for it and the campaign is
\* open, and the addition to donated is what overflows.
C30_Witness ==
    \E a \in Addresses, i \in Existing, m \in OverflowAmounts :
        /\ ~Borrow(world, i).completed
        /\ balance[a] >= m
        /\ treasury + m <= MAX_U64
        /\ Borrow(world, i).donated + m > MAX_U64
        /\ donate_result(world, a, i, m) = ArithmeticAbort

====
